---- MODULE Spec2Model ----
(***************************************************************************)
(* Model of the Telegram life-coach bot (src/telegram_bot.py, src/utils.py) *)
(*                                                                         *)
(* Two execution contexts share the MongoDB collection `users`:            *)
(*   - the bot-polling thread, which runs one update handler at a time     *)
(*     (start, reset, handle_message, handle_photo, handle_voice,          *)
(*     handle_video); a handler is split at the points where it touches    *)
(*     the collection, so that the HTTP thread can run in between;         *)
(*   - the Flask thread, which runs stripe_webhook; a request makes at     *)
(*     most one update_one call, so handling it is one atomic step,        *)
(*     followed by the step that hands the response back.                  *)
(* The collection outlives the process: at start-up it is empty or holds   *)
(* a record an earlier run left.                                           *)
(***************************************************************************)
EXTENDS Integers, Sequences, FiniteSets, TLC

VARIABLES users, bot, web, generated, delivered, everSubscribed, dispatched

vars == <<users, bot, web, generated, delivered, everSubscribed, dispatched>>

(* ---------------------------- bounds ----------------------------------- *)

\* number of bot updates dispatched in one run
MaxUpdates == 2

(* -------------------------- program constants -------------------------- *)

\* free messages before the paywall: `user_data['message_count'] < 10`
FreeLimit == 10

UserIds == {1, 2}

\* Python None where a user id is expected (absent payload field)
None == 0


(* ------------------------------ documents ------------------------------ *)

\* the document start and handle_message insert for a new user
NewDoc(u) ==
    [user_id |-> u, message_count |-> 0, subscribed |-> FALSE,
     conversation_history |-> <<>>]

\* what find_one returns when no document matches (Python None)
NoDoc ==
    [user_id |-> None, message_count |-> 0, subscribed |-> FALSE,
     conversation_history |-> <<>>]

Has(coll, u) == \E d \in coll : d.user_id = u

find_one(coll, u) ==
    IF Has(coll, u) THEN CHOOSE d \in coll : d.user_id = u ELSE NoDoc

insert_one(coll, d) == coll \cup {d}

\* update_one without upsert: replaces the matching document, or does nothing
update_one(coll, u, new) ==
    IF Has(coll, u) THEN (coll \ {find_one(coll, u)}) \cup {new} ELSE coll

(* --------------------------- update documents -------------------------- *)

SetSubscribed(d, val) == [d EXCEPT !.subscribed = val]

\* a reset that also clears the counter
ResetDocZeroCount(d) ==
    [d EXCEPT !.conversation_history = <<>>, !.message_count = 0]

\* {"$set": {"conversation_history": []}}
ResetDoc(d) == [d EXCEPT !.conversation_history = <<>>]

\* a $push without the $inc
IncPushNoInc(d, entry) ==
    [d EXCEPT !.conversation_history = Append(@, entry)]

\* a $set of the history to the last exchange instead of a $push
IncPushLastOnly(d, entry) ==
    [d EXCEPT !.message_count = @ + 1, !.conversation_history = <<entry>>]

\* {"$inc": {"message_count": 1}, "$push": {"conversation_history": entry}}
IncPush(d, entry) ==
    [d EXCEPT !.message_count = @ + 1,
              !.conversation_history = Append(@, entry)]

\* the update written from the record read at the start of the handler
RecordExchangeStale(stored, user_data, entry) == IncPush(user_data, entry)

\* update_one applies $inc and $push to the stored document, not to the
\* user_data the handler read earlier
RecordExchange(stored, user_data, entry) == IncPush(stored, entry)

(* ------------------------------ the gate ------------------------------- *)

is_subscription_active(user_data) ==
    user_data.user_id # None /\ user_data.subscribed

\* `is_subscription_active(user_data) or user_data['message_count'] < 10`
Allowed(user_data) ==
    is_subscription_active(user_data) \/ user_data.message_count < FreeLimit

(* ------------------------- media classification ------------------------ *)

\* utils.analyze_image: the emotions found, or ["error"] on any exception
analyze_image(raises) == IF raises THEN <<"error">> ELSE <<"happy">>

\* utils.analyze_audio: (text, sentiment), or ("error", neutral) on exception
analyze_audio(raises) ==
    IF raises THEN [text |-> "error", label |-> "neutral"]
              ELSE [text |-> "i feel good", label |-> "POSITIVE"]

\* utils.analyze_video: the emotions found, or ["error"] on any exception
analyze_video(raises) == IF raises THEN <<"error">> ELSE <<"sad">>

\* what handle_message receives: update.message.text or response_text
TextPrompt == [kind |-> "text", labels |-> <<>>, text |-> "hello"]

PhotoPrompt(emotions) == [kind |-> "photo", labels |-> emotions, text |-> ""]

VoicePrompt(a) == [kind |-> "voice", labels |-> <<a.label>>, text |-> a.text]

VideoPrompt(emotions) == [kind |-> "video", labels |-> emotions, text |-> ""]

NoPrompt == [kind |-> "none", labels |-> <<>>, text |-> ""]

\* the reply of the language model
Response == "response"

(* ------------------------------ bot thread ----------------------------- *)

Idle ==
    [pc |-> "idle", op |-> "none", u |-> None, prompt |-> NoPrompt,
     user_data |-> NoDoc, reply |-> "none", exc |-> "none",
     llm_called |-> FALSE, reply_sent |-> FALSE, before |-> NoDoc,
     raced |-> FALSE]

CanDispatch == bot.pc = "idle" /\ dispatched < MaxUpdates

Begin(op, u) == [Idle EXCEPT !.op = op, !.u = u, !.before = find_one(users, u)]

Done(b, reply) == [b EXCEPT !.pc = "done", !.reply = reply]

\* the reply of the except branch that encloses the call of handle_message:
\* none for a text message and for /start and /reset, where the exception
\* leaves the handler
EnclosingExcept(op) ==
    CASE op = "photo" -> "sorry_image"
      [] op = "voice" -> "sorry_audio"
      [] op = "video" -> "sorry_video"
      [] OTHER -> "none"

\* a call outside the try blocks of start, reset and handle_message raises:
\* the exception leaves them, and only the except branch of a media handler
\* is there to catch it
Escapes(b, kind) ==
    Done([b EXCEPT !.exc = IF @ = "none" THEN kind ELSE @],
         EnclosingExcept(b.op))

\* async def start: `if not users_collection.find_one(...)`, then the
\* welcome message when the user has a record
start(u) ==
    /\ CanDispatch
    /\ \E find_raises \in BOOLEAN :
        bot' = IF find_raises
               THEN Escapes(Begin("start", u), "database")
               ELSE IF Has(users, u)
               THEN Done(Begin("start", u), "welcome")
               ELSE [Begin("start", u) EXCEPT !.pc = "start_insert"]
    /\ dispatched' = dispatched + 1
    /\ UNCHANGED <<users, web, generated, delivered, everSubscribed>>

\* start: insert_one for a user without a record, then the welcome message
Start_InsertOne ==
    /\ bot.pc = "start_insert"
    /\ \E insert_raises \in BOOLEAN :
        IF insert_raises
        THEN /\ bot' = Escapes(bot, "database")
             /\ UNCHANGED users
        ELSE /\ users' = insert_one(users, NewDoc(bot.u))
             /\ bot' = Done(bot, "welcome")
    /\ UNCHANGED <<web, generated, delivered, everSubscribed, dispatched>>

\* async def reset: update_one, then the acknowledgement; when update_one
\* raises nothing is written and nothing is replied
reset(u) ==
    /\ CanDispatch
    /\ \E update_raises \in BOOLEAN :
        IF update_raises
        THEN /\ bot' = Escapes(Begin("reset", u), "database")
             /\ UNCHANGED users
        ELSE /\ users' = update_one(users, u, ResetDoc(find_one(users, u)))
             /\ bot' = Done(Begin("reset", u), "reset_ack")
    /\ dispatched' = dispatched + 1
    /\ UNCHANGED <<web, generated, delivered, everSubscribed>>

\* a text message: the dispatcher calls handle_message with response_text None
handle_text(u) ==
    /\ CanDispatch
    /\ bot' = [Begin("text", u) EXCEPT !.pc = "handle_message",
                                       !.prompt = TextPrompt]
    /\ dispatched' = dispatched + 1
    /\ UNCHANGED <<users, web, generated, delivered, everSubscribed>>

\* the try block of handle_photo, handle_voice and handle_video up to the
\* call of handle_message: the download, or the except branch's apology
AfterDownload(op, u, download_raises, classify_raises, prompt, apology) ==
    IF download_raises
    THEN Done([Begin(op, u) EXCEPT !.exc = "download"], apology)
    ELSE [Begin(op, u) EXCEPT
             !.pc = "handle_message", !.prompt = prompt,
             !.exc = IF classify_raises THEN "classification" ELSE "none"]

\* async def handle_photo
handle_photo(u) ==
    /\ CanDispatch
    /\ \E download_raises, classify_raises \in BOOLEAN :
          bot' = AfterDownload("photo", u, download_raises, classify_raises,
                     PhotoPrompt(analyze_image(classify_raises)),
                     "sorry_image")
    /\ dispatched' = dispatched + 1
    /\ UNCHANGED <<users, web, generated, delivered, everSubscribed>>

\* async def handle_voice
handle_voice(u) ==
    /\ CanDispatch
    /\ \E download_raises, classify_raises \in BOOLEAN :
          bot' = AfterDownload("voice", u, download_raises, classify_raises,
                     VoicePrompt(analyze_audio(classify_raises)),
                     "sorry_audio")
    /\ dispatched' = dispatched + 1
    /\ UNCHANGED <<users, web, generated, delivered, everSubscribed>>

\* async def handle_video
handle_video(u) ==
    /\ CanDispatch
    /\ \E download_raises, classify_raises \in BOOLEAN :
          bot' = AfterDownload("video", u, download_raises, classify_raises,
                     VideoPrompt(analyze_video(classify_raises)),
                     "sorry_video")
    /\ dispatched' = dispatched + 1
    /\ UNCHANGED <<users, web, generated, delivered, everSubscribed>>

\* the branch of handle_message taken for the record read
Gate(user_data) == IF Allowed(user_data) THEN "generate" ELSE "paywall"

\* handle_message: user_data = find_one(...); if not user_data: ...
HM_FindOne ==
    /\ bot.pc = "handle_message"
    /\ \E find_raises \in BOOLEAN :
        LET user_data == find_one(users, bot.u) IN
        bot' = IF find_raises
               THEN Escapes(bot, "database")
               ELSE IF user_data.user_id = None
               THEN [bot EXCEPT !.pc = "insert"]
               ELSE [bot EXCEPT !.pc = Gate(user_data),
                                !.user_data = user_data]
    /\ UNCHANGED <<users, web, generated, delivered, everSubscribed, dispatched>>

\* handle_message: insert_one for a user without a record
HM_InsertOne ==
    /\ bot.pc = "insert"
    /\ \E insert_raises \in BOOLEAN :
        IF insert_raises
        THEN /\ bot' = Escapes(bot, "database")
             /\ UNCHANGED users
        ELSE /\ users' = insert_one(users, NewDoc(bot.u))
             /\ bot' = [bot EXCEPT !.pc = "refetch"]
    /\ UNCHANGED <<web, generated, delivered, everSubscribed, dispatched>>

\* handle_message: the second find_one, after the insert
HM_Refetch ==
    /\ bot.pc = "refetch"
    /\ \E find_raises \in BOOLEAN :
        LET user_data == find_one(users, bot.u) IN
        bot' = IF find_raises
               THEN Escapes(bot, "database")
               ELSE [bot EXCEPT !.pc = Gate(user_data),
                                !.user_data = user_data]
    /\ UNCHANGED <<users, web, generated, delivered, everSubscribed, dispatched>>

\* the first exception of the handler is the one it is remembered by
FirstExc(b, kind) == [b EXCEPT !.llm_called = TRUE,
                               !.exc = IF @ = "none" THEN kind ELSE @]

\* handle_message: the try block get_groq_response, reply_text, update_one
\* and its except branch. Either the generation (or the sending of its
\* result) raises, or the reply is sent and update_one raises, or all three
\* calls succeed.
HM_Generate ==
    /\ bot.pc = "generate"
    /\ \E outcome \in {"generation_raises", "update_raises", "recorded"} :
        CASE outcome = "generation_raises" ->
                /\ bot' = Done(FirstExc(bot, "generation"), "sorry_request")
                /\ UNCHANGED <<users, generated, delivered>>
          [] outcome = "update_raises" ->
                /\ bot' = Done([FirstExc(bot, "recording")
                                   EXCEPT !.reply_sent = TRUE],
                               "sorry_request")
                /\ delivered' = [delivered EXCEPT ![bot.u] = @ + 1]
                /\ UNCHANGED <<users, generated>>
          [] outcome = "recorded" ->
                /\ users' = update_one(users, bot.u,
                               RecordExchange(find_one(users, bot.u),
                                   bot.user_data,
                                   [user |-> bot.prompt, bot |-> Response]))
                /\ bot' = Done([bot EXCEPT
                                  !.llm_called = TRUE,
                                  !.reply_sent = TRUE,
                                  !.raced = (find_one(users, bot.u).subscribed
                                             # bot.user_data.subscribed)],
                               "generated")
                /\ generated' = [generated EXCEPT ![bot.u] = @ + 1]
                /\ delivered' = [delivered EXCEPT ![bot.u] = @ + 1]
    /\ UNCHANGED <<web, everSubscribed, dispatched>>

\* handle_message: create_checkout_session and the subscription link; the
\* Stripe call is outside every try of handle_message
HM_Paywall ==
    /\ bot.pc = "paywall"
    /\ \E checkout_raises \in BOOLEAN :
        bot' = IF checkout_raises
               THEN Escapes(bot, "checkout")
               ELSE Done(bot, "paywall")
    /\ UNCHANGED <<users, web, generated, delivered, everSubscribed,
                   dispatched>>

\* the handler returns and the dispatcher takes the next update
Return ==
    /\ bot.pc = "done"
    /\ bot' = Idle
    /\ UNCHANGED <<users, web, generated, delivered, everSubscribed, dispatched>>

(* ------------------------------ HTTP thread ---------------------------- *)

Req(verify, type, cri, meta, status) ==
    [verify |-> verify, type |-> type, client_reference_id |-> cri,
     metadata_user_id |-> meta, status |-> status]

\* the events Stripe sends for a subscription bought through
\* create_checkout_session, which sets client_reference_id and no metadata
OwnCheckoutEvents ==
    {Req("valid", "checkout.session.completed", u, None, "active")
        : u \in UserIds}
    \cup {Req("valid", "invoice.payment_succeeded", None, None, "active")}
    \cup {Req("valid", "customer.subscription.updated", None, None, s)
        : s \in {"active", "canceled"}}
    \cup {Req("valid", "customer.subscription.deleted", None, None,
              "canceled")}

\* the user ids found in `subscription.metadata.user_id`: of subscriptions
\* made outside create_checkout_session, which sets no metadata
MetadataUserIds == {1}

\* events of the same Stripe account that did not come from that session
OtherEvents ==
    {Req("valid", "checkout.session.completed", None, None, "active"),
     Req("valid", "charge.refunded", None, None, "active")}
    \cup {Req("valid", "customer.subscription.updated", None, u, s)
        : u \in MetadataUserIds, s \in {"active", "canceled"}}
    \cup {Req("valid", "customer.subscription.deleted", None, u, "canceled")
        : u \in MetadataUserIds}

\* requests construct_event rejects
RejectedRequests ==
    {Req(v, "checkout.session.completed", 1, None, "active")
        : v \in {"invalid_payload", "invalid_signature"}}

Requests == OwnCheckoutEvents \cup OtherEvents \cup RejectedRequests

NoWeb == [pc |-> "idle", status |-> 0]

Responded(status) == [pc |-> "responded", status |-> status]

\* def handle_checkout_session: int(user_id) is called without a guard, so
\* a session without client_reference_id raises TypeError
CheckoutRaises(session) == session.client_reference_id = None

\* def handle_checkout_session
handle_checkout_session(coll, session) ==
    update_one(coll, session.client_reference_id,
               SetSubscribed(find_one(coll, session.client_reference_id),
                             TRUE))

\* def handle_invoice_payment_succeeded: logs only
handle_invoice_payment_succeeded(coll, invoice) == coll

\* def handle_subscription_updated
handle_subscription_updated(coll, subscription) ==
    IF subscription.metadata_user_id # None
    THEN update_one(coll, subscription.metadata_user_id,
             SetSubscribed(find_one(coll, subscription.metadata_user_id),
                           subscription.status = "active"))
    ELSE coll

\* def handle_subscription_deleted
handle_subscription_deleted(coll, subscription) ==
    IF subscription.metadata_user_id # None
    THEN update_one(coll, subscription.metadata_user_id,
             SetSubscribed(find_one(coll, subscription.metadata_user_id),
                           FALSE))
    ELSE coll

\* stripe_webhook: the branch on event['type']
HandleEvent(coll, event) ==
    CASE event.type = "checkout.session.completed"
            -> handle_checkout_session(coll, event)
      [] event.type = "invoice.payment_succeeded"
            -> handle_invoice_payment_succeeded(coll, event)
      [] event.type = "customer.subscription.updated"
            -> handle_subscription_updated(coll, event)
      [] event.type = "customer.subscription.deleted"
            -> handle_subscription_deleted(coll, event)
      [] OTHER -> coll

\* the user id of the update_one call the handler of event makes, None if it
\* makes none
UpdateTarget(event) ==
    CASE event.type = "checkout.session.completed"
            -> event.client_reference_id
      [] event.type \in {"customer.subscription.updated",
                         "customer.subscription.deleted"}
            -> event.metadata_user_id
      [] OTHER -> None

\* def stripe_webhook, with the handler it calls
stripe_webhook(req) ==
    /\ web.pc = "idle"
    /\ IF req.verify # "valid"
       THEN /\ web' = Responded(400)
            /\ UNCHANGED <<users, everSubscribed>>
       ELSE IF req.type = "checkout.session.completed" /\ CheckoutRaises(req)
       THEN /\ web' = Responded(500)
            /\ UNCHANGED <<users, everSubscribed>>
       ELSE \E update_raises \in {r \in BOOLEAN : r => UpdateTarget(req) # None} :
            IF update_raises
            THEN /\ web' = Responded(500)
                 /\ UNCHANGED <<users, everSubscribed>>
            ELSE /\ web' = Responded(200)
                 /\ users' = HandleEvent(users, req)
                 /\ everSubscribed' =
                      [u \in UserIds |->
                         everSubscribed[u] \/ find_one(users', u).subscribed]
    /\ UNCHANGED <<bot, generated, delivered, dispatched>>

\* the response has been sent; the server takes the next request
WebReturn ==
    /\ web.pc = "responded"
    /\ web' = NoWeb
    /\ UNCHANGED <<users, bot, generated, delivered, everSubscribed, dispatched>>

(* ---------------------------- specification ---------------------------- *)

\* a record an earlier run left: a user who never subscribed and is one
\* message short of the free limit, with the history reset
Returning == [NewDoc(1) EXCEPT !.message_count = FreeLimit - 1]

\* the collection at start-up: empty, or holding the record of an earlier run
Init ==
    /\ users \in {{}, {Returning}}
    /\ bot = Idle
    /\ web = NoWeb
    /\ generated = [u \in UserIds |-> find_one(users, u).message_count]
    /\ delivered = generated
    /\ everSubscribed = [u \in UserIds |-> FALSE]
    /\ dispatched = 0

Next ==
    \/ \E u \in UserIds : start(u)
    \/ Start_InsertOne
    \/ \E u \in UserIds : reset(u)
    \/ \E u \in UserIds : handle_text(u)
    \/ \E u \in UserIds : handle_photo(u)
    \/ \E u \in UserIds : handle_voice(u)
    \/ \E u \in UserIds : handle_video(u)
    \/ HM_FindOne
    \/ HM_InsertOne
    \/ HM_Refetch
    \/ HM_Generate
    \/ HM_Paywall
    \/ Return
    \/ \E req \in Requests : stripe_webhook(req)
    \/ WebReturn

Spec == Init /\ [][Next]_vars

(* ------------------------------- claims -------------------------------- *)

MessageOps == {"text", "photo", "voice", "video"}

Apologies == {"sorry_request", "sorry_image", "sorry_audio", "sorry_video"}

\* the handler that has just finished went through handle_message
ReachedHandleMessage ==
    bot.pc = "done" /\ bot.op \in MessageOps /\ bot.exc # "download"

\* h2 is h with exactly one entry appended
AppendsOne(h, h2) == Len(h2) = Len(h) + 1 /\ SubSeq(h2, 1, Len(h)) = h

\* this step is the /reset handler of user u
IsReset(u) == bot.pc = "idle" /\ bot'.op = "reset" /\ bot'.u = u

\* C1: a message that reaches handle_message is answered with the paywall
\* link exactly when the record read by the handler has subscribed = false
\* and message_count >= 10; in that case the language model was not called
\* and the record's message_count and conversation_history are as read.
C1_PaywallIffGate ==
    ReachedHandleMessage =>
        /\ bot.reply = "paywall" <=>
              (~bot.user_data.subscribed
               /\ bot.user_data.message_count >= FreeLimit)
        /\ bot.reply = "paywall" =>
              /\ ~bot.llm_called
              /\ find_one(users, bot.u).message_count
                     = bot.user_data.message_count
              /\ find_one(users, bot.u).conversation_history
                     = bot.user_data.conversation_history

\* C2: message_count never decreases, grows by exactly 1 with each generated
\* reply that was sent and recorded, and so always equals the number of such
\* replies; a paywall answer or a failure apology leaves it as it was.
C2_CountMonotonic ==
    /\ [](\A d \in users : d.message_count = generated[d.user_id])
    /\ [](bot.pc = "done" /\ bot.reply \in Apologies \cup {"paywall"}
            => find_one(users, bot.u).message_count
                   = bot.before.message_count)
    /\ [][\A d \in users :
            /\ Has(users', d.user_id)
            /\ find_one(users', d.user_id).message_count - d.message_count
                 = generated'[d.user_id] - generated[d.user_id]
            /\ generated'[d.user_id] - generated[d.user_id] \in {0, 1}]_vars

\* a generated reply has been recorded for a user who had a record
C2_Witness ==
    /\ bot.pc = "done"
    /\ bot.reply = "generated"
    /\ bot.before.user_id # None
    /\ find_one(users, bot.u).message_count = bot.before.message_count + 1

\* C3: no step of a bot handler changes the subscribed flag of a record that
\* exists, also when a webhook update falls between the handler's read and
\* its write.
C3_SubscribedOnlyByWebhook ==
    [][bot' # bot =>
         \A d \in users :
            /\ Has(users', d.user_id)
            /\ find_one(users', d.user_id).subscribed = d.subscribed]_vars

\* a reply was recorded after a webhook had changed the flag the handler
\* read, and the record still carries the webhook's value
C3_Witness ==
    /\ bot.pc = "done"
    /\ bot.reply = "generated"
    /\ bot.raced
    /\ find_one(users, bot.u).subscribed # bot.user_data.subscribed

\* C4 as stated: every step leaves each history unchanged or appends exactly
\* one pair to it.
C4_AppendOnly ==
    [][\A d \in users :
          LET h == d.conversation_history
              h2 == find_one(users', d.user_id).conversation_history
          IN  h2 = h \/ AppendsOne(h, h2)]_vars

\* C4 amended: every step leaves each history unchanged, appends exactly one
\* pair to it, or is the user's own /reset, which empties it.
C4_AppendOnlyExceptReset ==
    [][\A d \in users :
          LET h == d.conversation_history
              h2 == find_one(users', d.user_id).conversation_history
          IN  \/ h2 = h
              \/ AppendsOne(h, h2)
              \/ IsReset(d.user_id) /\ h2 = <<>>]_vars

\* a /reset has emptied a history that held an exchange
C4_Witness ==
    /\ bot.pc = "done"
    /\ bot.op = "reset"
    /\ Len(bot.before.conversation_history) > 0
    /\ find_one(users, bot.u).conversation_history = <<>>

\* C5: once the handler of /start or of a text, photo, voice or video message
\* of user u has finished, the collection holds a record of u.
C5_RecordExists ==
    bot.pc = "done" /\ bot.op \in MessageOps \cup {"start"}
        => Has(users, bot.u)

\* C6: a verified event of one of the four recognized types, for a
\* subscription user u bought through the bot's checkout session, makes one
\* update of u's record; after subscription.deleted u is not subscribed and
\* after subscription.updated subscribed equals (status = 'active').
C6_EachEventOneUpdate ==
    [][\A req \in OwnCheckoutEvents : \A u \in UserIds :
          ( /\ stripe_webhook(req)
            /\ Has(users, u)
            /\ req.type = "checkout.session.completed"
                  => req.client_reference_id = u )
          => /\ UpdateTarget(req) = u
             /\ req.type = "customer.subscription.deleted"
                  => ~find_one(users', u).subscribed
             /\ req.type = "customer.subscription.updated"
                  => find_one(users', u).subscribed
                        = (req.status = "active")]_vars

\* C7: when the download, the classification or the generation raised, the
\* reply is an apology, no generated reply was sent, nothing of a failed
\* download or classification went to the language model, and the user's
\* message_count and conversation_history are as before the message.
C7_FailureApology ==
    bot.pc = "done"
    /\ bot.exc \in {"download", "classification", "generation"} =>
        /\ bot.reply \in Apologies
        /\ ~bot.reply_sent
        /\ bot.exc \in {"download", "classification"} => ~bot.llm_called
        /\ find_one(users, bot.u).message_count = bot.before.message_count
        /\ find_one(users, bot.u).conversation_history
               = bot.before.conversation_history

C9_WebhookStatus ==
    [][\A req \in Requests :
          stripe_webhook(req) =>
             IF req.verify # "valid"
             THEN web'.status = 400 /\ users' = users
             ELSE web'.status = 200]_vars

\* C10: a user whose subscribed flag was never true receives at most 10
\* generated replies, and the user's message_count never exceeds 10.
C10_FreeTierBound ==
    \A u \in UserIds :
        ~everSubscribed[u] =>
            /\ delivered[u] <= FreeLimit
            /\ find_one(users, u).message_count <= FreeLimit

====
